---- MODULE Spec2Model ----
(***************************************************************************)
(* A model of the cache-building pipeline (generate_cache.py) and of the   *)
(* query layer that reads the written cache (logic.py).                    *)
(*                                                                         *)
(* Conventions.  A Python str that the code lower-cases, trims or formats  *)
(* from a number is a sequence of one-character tokens; every other str is *)
(* a TLA+ string, with "" standing for both "" and None (the code only     *)
(* tests them for truth).  An optional int is NoInt when None.  A JSON     *)
(* document is a record, None is the record None.  A dict is a function    *)
(* whose DOMAIN is its key set.  Japanese literals are written in Latin    *)
(* letters, with the original beside them in a comment.                    *)
(***************************************************************************)
EXTENDS Integers, Sequences, FiniteSets, TLC

VARIABLES
    pc,             \* main(): the statement it is at
    item_map,       \* main(): item_map
    item_idx,       \* fetch_all_items(): index of the for loop over data["results"]
    version_map,    \* main(): version_map
    tasks,          \* the fetch_pokemon coroutines, by pokemon_id
    completed,      \* asyncio.as_completed: ids of finished tasks, in completion order
    n_awaited,      \* main(): i, the number of tasks awaited so far
    pokemon_list,   \* main(): pokemon_list
    pokemon_list_sorted, \* main(): pokemon_list_sorted
    moves_idx,      \* main(): index of the for loop over pokemon_list_sorted
    moves_data,     \* fetch_pokemon_moves(): data
    moves_k,        \* fetch_pokemon_moves(): index of the for loop over data["moves"]
    moves_list,     \* fetch_pokemon_moves(): moves_list
    moves_all,      \* main(): moves_all
    main_fetches,   \* the URLs main() has requested itself, in order
    main_got,       \* whether each of those fetches that returned gave a document
    files,          \* the files of DATA_DIR, by name
    written,        \* the files of DATA_DIR this run has written
    call,           \* the function applied last, with its arguments
    ret             \* what that call returned

vars == << pc, item_map, item_idx, version_map, tasks, completed, n_awaited,
           pokemon_list, pokemon_list_sorted, moves_idx, moves_data, moves_k,
           moves_list, moves_all, main_fetches, main_got, files, written,
           call, ret >>

pipeline_vars == << pc, item_map, item_idx, version_map, tasks, completed,
                    n_awaited, pokemon_list, pokemon_list_sorted, moves_idx,
                    moves_data, moves_k, moves_list, moves_all, main_fetches,
                    main_got, written >>

-----------------------------------------------------------------------------
(* Bounds *)

\* The entity IDs fetched are 1..MaxId (range(1, 1026) in the code).
MaxId == 3

\* The longest query typed into the search form.
MaxQueryLen == 2

-----------------------------------------------------------------------------
(* Python values *)

None == [tag |-> "None"]
NoInt == 0 - 1
EmptyDict == <<>>

\* dict.get(key, default)
DictGet(d, key, default) == IF key \in DOMAIN d THEN d[key] ELSE default

\* d[key] = value
DictSet(d, key, value) ==
    [k \in (DOMAIN d) \cup {key} |-> IF k = key THEN value ELSE d[k]]

\* bool(x) of an optional int: None and 0 are false
TruthyInt(n) == n # NoInt /\ n # 0

\* str.lower() of one character
LowerChar(c) ==
    CASE c = "A" -> "a"
      [] c = "B" -> "b"
      [] c = "Z" -> "z"
      [] OTHER -> c

\* str.lower()
Lower(s) == [k \in 1..Len(s) |-> LowerChar(s[k])]

RECURSIVE LStrip(_)
LStrip(s) == IF s # <<>> /\ Head(s) = " " THEN LStrip(Tail(s)) ELSE s

RECURSIVE RStrip(_)
RStrip(s) ==
    IF s # <<>> /\ s[Len(s)] = " " THEN RStrip(SubSeq(s, 1, Len(s) - 1)) ELSE s

\* str.strip()
Strip(s) == RStrip(LStrip(s))

Digits == <<"0", "1", "2", "3", "4", "5", "6", "7", "8", "9">>

\* str(n) of a non-negative int
RECURSIVE Str(_)
Str(n) ==
    IF n < 10 THEN << Digits[n + 1] >>
    ELSE Str(n \div 10) \o << Digits[(n % 10) + 1] >>

\* A formatted string: the f-string's template and the values put into it.
Text(fmt, n, s) == [fmt |-> fmt, n |-> n, s |-> s]

-----------------------------------------------------------------------------
(* The upstream data provider: what a GET of each URL answers with 200.    *)
(* Species 1 evolves into 4 (by level) and into 2 (by item); species 3 has *)
(* no evolution chain; species 5 is alone in its chain.  Species 2 and 3   *)
(* each list one variety, themselves.                                      *)

SlugNames == << <<"a">>, <<"b">>, <<"c">>, <<"d">>, <<"e">> >>
JaNames == << <<"ka">>, <<"ka", "Z">>, <<"ki">>, <<"ku">>, <<"ke">> >>

UpstreamIds == 1..Len(SlugNames)
Slug(i) == SlugNames[i]

Url(ep, key) == [ep |-> ep, key |-> key]

POKEAPI_pokemon(key) == Url("pokemon", key)
POKEAPI_item_list == Url("item", <<"?", "l">>)

ItemUrl == Url("item", <<"1">>)
ItemDoc ==
    [name  |-> "stone",
     names |-> << [language |-> "en", name |-> "Stone"],
                  [language |-> "ja-Hrkt", name |-> "ishi"] >>]
ItemListDoc == [results |-> << [name |-> "stone", url |-> ItemUrl] >>]

MoveUrl == Url("move", <<"1">>)
MoveDoc ==
    [name  |-> "tackle",
     names |-> << [language |-> "ja-Hrkt", name |-> "taiatari"] >>]

VersionDetail(version, level) ==
    [version_group     |-> version,
     level_learned_at  |-> level,
     move_learn_method |-> "level-up"]

\* data["moves"] of the primary record
MovesOf(i) ==
    CASE i = 1 -> << [move |-> [name |-> "tackle", url |-> MoveUrl],
                      version_group_details |->
                          << VersionDetail("red-blue", 1),
                             VersionDetail("gold-silver", 5) >>] >>
      [] i = 2 -> << [move |-> [name |-> "tackle", url |-> MoveUrl],
                      version_group_details |->
                          << VersionDetail("red-blue", 7) >>] >>
      [] OTHER -> << >>

SpeciesUrl(i) == Url("pokemon-species", Str(i))
ChainUrl(c) == Url("evolution-chain", Str(c))

PokemonDoc(i) ==
    [id      |-> i,
     name    |-> Slug(i),
     types   |-> IF i = 1 THEN << "grass" >> ELSE << "grass", "poison" >>,
     sprites |-> [official_artwork |-> IF i = 2 THEN "" ELSE "art",
                  front_default    |-> "sprite"],
     species |-> [url |-> SpeciesUrl(i)],
     is_mega |-> FALSE,
     moves   |-> MovesOf(i)]

Detail(trigger, min_level, item, min_happiness, time_of_day, known_move) ==
    [trigger       |-> trigger,
     min_level     |-> min_level,
     item          |-> item,
     min_happiness |-> min_happiness,
     time_of_day   |-> time_of_day,
     known_move    |-> known_move]

ChainNode(species, details, evolves_to) ==
    [species |-> species, evolution_details |-> details, evolves_to |-> evolves_to]

ChainDoc(c) ==
    IF c = 1
    THEN [id |-> 1,
          chain |-> ChainNode(Slug(1), << >>,
              << ChainNode(Slug(4),
                           << Detail("level-up", 16, "", NoInt, "", "") >>,
                           << >>),
                 ChainNode(Slug(2),
                           << Detail("use-item", NoInt, "stone", NoInt, "", "") >>,
                           << >>) >>)]
    ELSE [id |-> c, chain |-> ChainNode(Slug(5), << >>, << >>)]

\* the evolution chain a species belongs to; 0 when it has none
ChainOf(i) == IF i \in {1, 2, 4} THEN 1 ELSE IF i = 3 THEN 0 ELSE 2

SpeciesDoc(i) ==
    [names |-> << [language |-> "en", name |-> Slug(i)],
                  [language |-> "ja-Hrkt", name |-> JaNames[i]] >>,
     form_names |-> << >>,
     evolution_chain |-> [url |-> IF ChainOf(i) = 0 THEN None ELSE ChainUrl(ChainOf(i))],
     varieties |-> IF i \in {2, 3}
                   THEN << [pokemon |-> [url |-> POKEAPI_pokemon(Str(i))]] >>
                   ELSE << >>]

\* the document a URL names
UpstreamDoc(url) ==
    CASE url.ep = "pokemon" ->
            PokemonDoc(CHOOSE j \in UpstreamIds : url.key \in {Str(j), Slug(j)})
      [] url.ep = "pokemon-species" ->
            SpeciesDoc(CHOOSE j \in UpstreamIds : url.key = Str(j))
      [] url.ep = "evolution-chain" ->
            ChainDoc(CHOOSE c \in {1, 2} : url.key = Str(c))
      [] url.ep = "item" ->
            IF url = POKEAPI_item_list THEN ItemListDoc ELSE ItemDoc
      [] url.ep = "move" -> MoveDoc

\* data/version_group_names.json as it is before a run
VersionGroupNames == [v \in {"red-blue"} |-> "aka-ao"]

\* data/type_names.json, which no run writes
TypeNames == [t \in {"grass"} |-> "kusa"]

-----------------------------------------------------------------------------
(* fetch_json *)

retries == 3

\* What one `async with session.get(url)` block does: "ok" is status 200 with
\* a body that parses, "status" is any other status, "exc" is an exception
\* raised anywhere in the block.
AttemptOutcomes == {"ok", "status", "exc"}
Responses == [1..retries -> AttemptOutcomes]

\* the for loop of fetch_json, from the given attempt on
RECURSIVE fetch_json_loop(_, _, _)
fetch_json_loop(url, resps, attempt) ==
    IF attempt >= retries
    THEN [result |-> None, attempts |-> attempt]
    ELSE CASE resps[attempt + 1] = "ok" ->
                 [result |-> UpstreamDoc(url), attempts |-> attempt + 1]
           [] resps[attempt + 1] = "status" ->
                 [result |-> None, attempts |-> attempt + 1]
           [] OTHER -> fetch_json_loop(url, resps, attempt + 1)

\* fetch_json with a status other than 200 retried like an exception
RECURSIVE fetch_json_loop_retrying_status(_, _, _)
fetch_json_loop_retrying_status(url, resps, attempt) ==
    IF attempt >= retries
    THEN [result |-> None, attempts |-> attempt]
    ELSE IF resps[attempt + 1] = "ok"
    THEN [result |-> UpstreamDoc(url), attempts |-> attempt + 1]
    ELSE fetch_json_loop_retrying_status(url, resps, attempt + 1)

fetch_json_retrying_status(url, resps) ==
    fetch_json_loop_retrying_status(url, resps, 0)

fetch_json(url, resps) == fetch_json_loop(url, resps, 0)

\* the URLs a run of the pipeline requests
UpstreamUrls ==
    {POKEAPI_item_list, ItemUrl, MoveUrl}
        \cup { POKEAPI_pokemon(Str(i)) : i \in 1..MaxId }
        \cup { POKEAPI_pokemon(Slug(i)) : i \in 1..MaxId }
        \cup { SpeciesUrl(i) : i \in 1..MaxId }
        \cup { ChainUrl(1) }

\* what each URL can give, over all the ways the three attempts can go
FetchedFrom ==
    [url \in UpstreamUrls |->
        { fetch_json(url, resps).result : resps \in Responses }]

\* what `await fetch_json(session, url)` can evaluate to
Fetched(url) == FetchedFrom[url]

-----------------------------------------------------------------------------
(* Entity assembly: extract_evolution_condition_from_chain,               *)
(* extract_form_info and fetch_pokemon                                     *)

\* next((n["name"] for n in names if n["language"]["name"] == "ja-Hrkt"), default)
RECURSIVE JaNameOf(_, _)
JaNameOf(names, default) ==
    IF names = << >> THEN default
    ELSE IF Head(names).language = "ja-Hrkt" THEN Head(names).name
    ELSE JaNameOf(Tail(names), default)

\* sprites["other"]["official-artwork"]["front_default"] or sprites["front_default"]
ImageOf(sprites) ==
    IF sprites.official_artwork # "" THEN sprites.official_artwork
    ELSE sprites.front_default

\* "進化条件不明"
ConditionUnknown == Text("shinka joken fumei", NoInt, "")

\* bool(s) of a formatted string
TruthyText(t) == t # Text("", NoInt, "")

\* The body of `for detail in evo.get("evolution_details", [])`: every branch
\* returns, so only the first detail is ever read.
ConditionOfDetail(detail, imap) ==
    IF detail.item # ""
    THEN Text("{item}wo tsukau", NoInt,                    \* "{item}を使う"
              DictGet(imap, detail.item, detail.item))
    ELSE IF TruthyInt(detail.min_level)
    THEN Text("Lv{level}de shinka", detail.min_level, "")  \* "Lv{level}で進化"
    ELSE IF detail.trigger # ""
    THEN Text("{trigger}de shinka", NoInt, detail.trigger) \* "{trigger}で進化"
    ELSE ConditionUnknown

\* search(chain), its for loop being at the k-th child
RECURSIVE search(_, _, _, _)
search(chain, k, target_name, imap) ==
    LET evolves_to == DictGet(chain, "evolves_to", << >>) IN
    IF k > Len(evolves_to) THEN ConditionUnknown
    ELSE LET evo == evolves_to[k] IN
         IF evo.species = target_name /\ evo.evolution_details # << >>
         THEN ConditionOfDetail(evo.evolution_details[1], imap)
         ELSE LET result == search(evo, 1, target_name, imap) IN
              IF TruthyText(result) THEN result
              ELSE search(chain, k + 1, target_name, imap)

extract_evolution_condition_from_chain(chain_data, target_name, imap) ==
    search(DictGet(chain_data, "chain", EmptyDict), 1, target_name, imap)

\* extract_form_info with `evolution_condition = "進化条件不明"` as its default
extract_form_info_sentinel(form_detail, form_species_data, imap, evolution_chain) ==
    LET form_name_en == form_detail.name
        form_label0 ==
            IF form_species_data # None
            THEN JaNameOf(form_species_data.form_names, "")
            ELSE ""
    IN [name_en |-> form_name_en,
        name_ja |-> IF form_species_data # None
                    THEN JaNameOf(form_species_data.names, form_name_en)
                    ELSE form_name_en,
        img |-> ImageOf(form_detail.sprites),
        form_label |-> IF form_detail.is_mega /\ form_label0 = ""
                       THEN "mega no sugata"
                       ELSE form_label0,
        is_mega |-> form_detail.is_mega,
        evolution_condition |->
            IF evolution_chain # None
            THEN extract_evolution_condition_from_chain(
                     evolution_chain, form_name_en, imap)
            ELSE ConditionUnknown]

\* extract_form_info, given what its fetch of the form's species returned
extract_form_info(form_detail, form_species_data, imap, evolution_chain) ==
    LET form_name_en == form_detail.name
        form_label0 ==
            IF form_species_data # None
            THEN JaNameOf(form_species_data.form_names, "")
            ELSE ""
    IN [name_en |-> form_name_en,
        name_ja |-> IF form_species_data # None
                    THEN JaNameOf(form_species_data.names, form_name_en)
                    ELSE form_name_en,
        img |-> ImageOf(form_detail.sprites),
        form_label |-> IF form_detail.is_mega /\ form_label0 = ""
                       THEN "mega no sugata"               \* "メガのすがた"
                       ELSE form_label0,
        is_mega |-> form_detail.is_mega,
        evolution_condition |->
            IF evolution_chain # None
            THEN extract_evolution_condition_from_chain(
                     evolution_chain, form_name_en, imap)
            ELSE Text("", NoInt, "")]

\* A fetch_pokemon coroutine at its first await.  fetches lists the URLs it
\* has requested and got whether each fetch that returned gave a document;
\* neither is read by the code.
NewTask(pokemon_id) ==
    [pc              |-> "primary",
     data            |-> None,
     species_data    |-> None,
     name_ja         |-> << >>,
     evolution_chain |-> None,
     forms_data      |-> << >>,
     vidx            |-> 0,
     form_detail     |-> None,
     result          |-> None,
     fetches         |-> << POKEAPI_pokemon(Str(pokemon_id)) >>,
     got             |-> << >>]

\* `return result`: the coroutine is finished and its locals are gone
Return(t, result) ==
    [NewTask(0) EXCEPT !.pc = "done", !.result = result,
                       !.fetches = t.fetches, !.got = t.got]

\* fetch_pokemon with `name_ja` in place of `name_ja or name_en`
PokemonRecord_no_fallback(t) ==
    [id              |-> t.data.id,
     name_en         |-> t.data.name,
     name_ja         |-> t.name_ja,
     types           |-> t.data.types,
     img             |-> ImageOf(t.data.sprites),
     evolution_chain |-> t.evolution_chain,
     forms           |-> t.forms_data]

\* The dict fetch_pokemon returns.  The fields id, name_en, name_ja, types,
\* img, evolution_chain, forms stand for the keys 図鑑番号, 英語名, 日本語名,
\* タイプ, 画像, 進化チェーン, フォルム一覧.
PokemonRecord(t) ==
    [id              |-> t.data.id,
     name_en         |-> t.data.name,
     name_ja         |-> IF t.name_ja # << >> THEN t.name_ja ELSE t.data.name,
     types           |-> t.data.types,
     img             |-> ImageOf(t.data.sprites),
     evolution_chain |-> t.evolution_chain,
     forms           |-> t.forms_data]

\* `for variety in species_data.get("varieties", [])`, at the k-th variety:
\* request its detail record, or return when there is none left
NextVariety(t, k) ==
    LET varieties == DictGet(t.species_data, "varieties", << >>) IN
    IF k > Len(varieties) THEN Return(t, PokemonRecord(t))
    ELSE [t EXCEPT !.pc = "form", !.vidx = k,
                   !.fetches = Append(@, varieties[k].pokemon.url)]

\* fetch_pokemon from `data = await fetch_json(session, url)` to its next await
AfterPrimary(t, data) ==
    IF data = None THEN Return(t, None)
    ELSE [t EXCEPT !.pc = "species", !.data = data,
                   !.fetches = Append(@, data.species.url)]

\* fetch_pokemon with the species record required like the primary one
AfterSpecies_required(t, species_data) ==
    IF species_data = None THEN Return(t, None)
    ELSE LET evolution_chain_url == species_data.evolution_chain.url
             t1 == [t EXCEPT !.species_data = species_data,
                             !.name_ja = JaNameOf(species_data.names, << >>)]
         IN IF evolution_chain_url # None
            THEN [t1 EXCEPT !.pc = "chain",
                            !.fetches = Append(@, evolution_chain_url)]
            ELSE NextVariety(t1, 1)

\* ... from `species_data = await fetch_json(session, species_url)`
AfterSpecies(t, species_data) ==
    IF species_data = None THEN Return(t, PokemonRecord(t))
    ELSE LET evolution_chain_url == species_data.evolution_chain.url
             t1 == [t EXCEPT !.species_data = species_data,
                             !.name_ja = JaNameOf(species_data.names, << >>)]
         IN IF evolution_chain_url # None
            THEN [t1 EXCEPT !.pc = "chain",
                            !.fetches = Append(@, evolution_chain_url)]
            ELSE NextVariety(t1, 1)

\* ... from `evolution_chain = await fetch_json(session, evolution_chain_url)`
AfterChain(t, evolution_chain) ==
    NextVariety([t EXCEPT !.evolution_chain = evolution_chain], 1)

\* ... from `form_detail = await fetch_json(session, form_url)`, into
\* extract_form_info up to its await
AfterForm(t, form_detail, imap) ==
    IF form_detail = None THEN NextVariety(t, t.vidx + 1)
    ELSE LET form_species_url == form_detail.species.url IN
         IF form_species_url # None
         THEN [t EXCEPT !.pc = "form_species", !.form_detail = form_detail,
                        !.fetches = Append(@, form_species_url)]
         ELSE NextVariety(
                  [t EXCEPT !.forms_data = Append(@,
                      extract_form_info(form_detail, None, imap,
                                        t.evolution_chain))],
                  t.vidx + 1)

\* ... from extract_form_info's await to the next variety
AfterFormSpecies(t, form_species_data, imap) ==
    NextVariety(
        [t EXCEPT !.form_detail = None,
                  !.forms_data = Append(@,
                      extract_form_info(t.form_detail, form_species_data,
                                        imap, t.evolution_chain))],
        t.vidx + 1)

\* One step of a fetch_pokemon coroutine: the fetch it awaits returns `doc`.
TaskStep(t0, doc, imap) ==
    LET t == [t0 EXCEPT !.got = Append(@, doc # None)] IN
    CASE t.pc = "primary"      -> AfterPrimary(t, doc)
      [] t.pc = "species"      -> AfterSpecies(t, doc)
      [] t.pc = "chain"        -> AfterChain(t, doc)
      [] t.pc = "form"         -> AfterForm(t, doc, imap)
      [] t.pc = "form_species" -> AfterFormSpecies(t, doc, imap)

\* the URL a running coroutine is waiting for
Awaited(t) == t.fetches[Len(t.fetches)]

-----------------------------------------------------------------------------
(* main: the lookup tables *)

FileNames == {"pokemon_cache.json", "moves_cache.csv", "move_names.json",
              "item_names.json", "version_group_names.json"}

\* main scheduling the entity tasks without having loaded the version map
StartGather_unloaded(imap) ==
    /\ item_map' = imap
    /\ version_map' = EmptyDict
    /\ tasks' = [i \in 1..MaxId |-> NewTask(i)]
    /\ pc' = "gather"
    /\ UNCHANGED << completed, n_awaited, pokemon_list, pokemon_list_sorted,
                    moves_idx, moves_data, moves_k, moves_list, moves_all,
                    files, written, call, ret >>

\* main from `version_map = json.load(f)` to its first `await task`: the
\* version map is read, and as_completed schedules one coroutine per ID
StartGather(imap) ==
    /\ item_map' = imap
    /\ version_map' = files["version_group_names.json"]
    /\ tasks' = [i \in 1..MaxId |-> NewTask(i)]
    /\ pc' = "gather"
    /\ UNCHANGED << completed, n_awaited, pokemon_list, pokemon_list_sorted,
                    moves_idx, moves_data, moves_k, moves_list, moves_all,
                    files, written, call, ret >>

\* fetch_all_items with `return None` in place of `return {}`
NoItems_none == None

\* fetch_all_items: what `if not data: return {}` returns
NoItems == EmptyDict

\* fetch_all_items: `data = await fetch_json(session, url)`
FetchItemList ==
    /\ pc = "fetch_items"
    /\ \E data \in Fetched(POKEAPI_item_list) :
          /\ main_got' = Append(main_got, data # None)
          /\ IF data = None
             THEN /\ StartGather(NoItems)
                  /\ UNCHANGED << item_idx, main_fetches >>
             ELSE /\ pc' = "fetch_item"
                  /\ item_idx' = 1
                  /\ main_fetches' = Append(main_fetches, data.results[1].url)
                  /\ UNCHANGED << item_map, version_map, tasks, completed,
                                  n_awaited, pokemon_list, pokemon_list_sorted,
                                  moves_idx, moves_data, moves_k, moves_list,
                                  moves_all, files, written, call, ret >>

\* fetch_all_items: one turn of `for item in data["results"]`
FetchItemDetail ==
    /\ pc = "fetch_item"
    /\ \E item_data \in Fetched(ItemListDoc.results[item_idx].url) :
          /\ main_got' = Append(main_got, item_data # None)
          /\ LET results == ItemListDoc.results
                 imap == IF item_data = None THEN item_map
                         ELSE DictSet(item_map, item_data.name,
                                      JaNameOf(item_data.names, item_data.name))
             IN IF item_idx < Len(results)
                THEN /\ item_map' = imap
                     /\ item_idx' = item_idx + 1
                     /\ main_fetches' =
                            Append(main_fetches, results[item_idx + 1].url)
                     /\ UNCHANGED << pc, version_map, tasks, completed,
                                     n_awaited, pokemon_list, pokemon_list_sorted,
                                     moves_idx, moves_data, moves_k, moves_list,
                                     moves_all, files, written, call, ret >>
                ELSE /\ StartGather(imap)
                     /\ UNCHANGED << item_idx, main_fetches >>

-----------------------------------------------------------------------------
(* main: the entities *)

\* fetch_pokemon appending its record to main's list itself on return
RunTask_appending(i) ==
    /\ pc = "gather"
    /\ tasks[i].pc # "done"
    /\ \E doc \in Fetched(Awaited(tasks[i])) :
          LET t == TaskStep(tasks[i], doc, item_map)
          IN /\ tasks' = [tasks EXCEPT ![i] = t]
             /\ completed' = IF t.pc = "done" THEN Append(completed, i)
                             ELSE completed
             /\ pokemon_list' = IF t.pc = "done" /\ t.result # None
                                THEN Append(pokemon_list, t.result)
                                ELSE pokemon_list
    /\ UNCHANGED << pc, item_map, item_idx, version_map, n_awaited,
                    pokemon_list_sorted, moves_idx, moves_data,
                    moves_k, moves_list, moves_all, main_fetches, main_got,
                    files, written, call, ret >>

\* One fetch_pokemon coroutine runs from the await it is at to its next one.
RunTask(i) ==
    /\ pc = "gather"
    /\ tasks[i].pc # "done"
    /\ \E doc \in Fetched(Awaited(tasks[i])) :
          LET t == TaskStep(tasks[i], doc, item_map)
          IN /\ tasks' = [tasks EXCEPT ![i] = t]
             /\ completed' = IF t.pc = "done" THEN Append(completed, i)
                             ELSE completed
    /\ UNCHANGED << pc, item_map, item_idx, version_map, n_awaited,
                    pokemon_list, pokemon_list_sorted, moves_idx, moves_data,
                    moves_k, moves_list, moves_all, main_fetches, main_got,
                    files, written, call, ret >>

\* list.insert keeping ascending 図鑑番号, after the records with an equal one
RECURSIVE InsertById(_, _)
InsertById(sorted, p) ==
    IF sorted = << >> THEN << p >>
    ELSE IF Head(sorted).id <= p.id
    THEN << Head(sorted) >> \o InsertById(Tail(sorted), p)
    ELSE << p >> \o sorted

\* main without the sort
SortedById_unsorted(list) == list

\* sorted(pokemon_list, key=lambda x: x["図鑑番号"]), a stable sort
RECURSIVE SortedById(_)
SortedById(list) ==
    IF list = << >> THEN << >>
    ELSE InsertById(SortedById(SubSeq(list, 1, Len(list) - 1)), list[Len(list)])

\* {row["技名"]: row["技名_日本語"] for row in moves_all}
RECURSIVE MoveNames(_)
MoveNames(rows) ==
    IF rows = << >> THEN EmptyDict
    ELSE DictSet(MoveNames(SubSeq(rows, 1, Len(rows) - 1)),
                 rows[Len(rows)].move, rows[Len(rows)].move_ja)

\* main's `for p in pokemon_list_sorted` at index idx with moves_all = all:
\* fetch_pokemon_moves requests p's primary record; after the last p the
\* remaining caches are written and main returns.  fs is DATA_DIR so far.
MovesLoop(sorted, idx, all, fs, mf) ==
    /\ moves_idx' = idx
    /\ moves_all' = all
    /\ moves_data' = None
    /\ moves_k' = 0
    /\ moves_list' = << >>
    /\ IF idx <= Len(sorted)
       THEN /\ pc' = "moves"
            /\ main_fetches' = Append(mf, POKEAPI_pokemon(sorted[idx].name_en))
            /\ files' = fs
            /\ written' = {"pokemon_cache.json"}
       ELSE /\ pc' = "done"
            /\ main_fetches' = mf
            /\ files' = [fs EXCEPT !["moves_cache.csv"] = all,
                                   !["move_names.json"] = MoveNames(all),
                                   !["item_names.json"] = item_map,
                                   !["version_group_names.json"] = version_map]
            /\ written' = FileNames

\* main: `res = await task`, and after the last task the sort and the write
\* of pokemon_cache.json
AwaitTask ==
    /\ pc = "gather"
    /\ n_awaited < Len(completed)
    /\ LET res == tasks[completed[n_awaited + 1]].result
           list == IF res # None THEN Append(pokemon_list, res)
                   ELSE pokemon_list
       IN /\ pokemon_list' = list
          /\ n_awaited' = n_awaited + 1
          /\ IF n_awaited + 1 < MaxId
             THEN UNCHANGED << pc, pokemon_list_sorted, moves_idx, moves_data,
                               moves_k, moves_list, moves_all, main_fetches,
                               files, written >>
             ELSE /\ pokemon_list_sorted' = SortedById(list)
                  /\ MovesLoop(SortedById(list), 1, << >>,
                               [files EXCEPT !["pokemon_cache.json"] =
                                                 SortedById(list)],
                               main_fetches)
    /\ UNCHANGED << item_map, item_idx, version_map, tasks, completed,
                    main_got, call, ret >>

-----------------------------------------------------------------------------
(* main: the moves *)

\* fetch_pokemon_moves filling the owner column with the move's slug
RECURSIVE MoveRows_owner_lost(_, _, _, _, _)
MoveRows_owner_lost(pokemon_name, m, move_name_ja, vmap, k) ==
    IF k > Len(m.version_group_details) THEN << >>
    ELSE LET version_detail == m.version_group_details[k] IN
         << [pokemon  |-> m.move.name,
             move     |-> m.move.name,
             move_ja  |-> move_name_ja,
             version  |-> DictGet(vmap, version_detail.version_group,
                                  version_detail.version_group),
             level    |-> version_detail.level_learned_at,
             method   |-> version_detail.move_learn_method]
         >> \o MoveRows_owner_lost(pokemon_name, m, move_name_ja, vmap, k + 1)

\* the rows fetch_pokemon_moves appends for one move
RECURSIVE MoveRows(_, _, _, _, _)
MoveRows(pokemon_name, m, move_name_ja, vmap, k) ==
    IF k > Len(m.version_group_details) THEN << >>
    ELSE LET version_detail == m.version_group_details[k] IN
         << [pokemon  |-> pokemon_name,                       \* ポケモン
             move     |-> m.move.name,                        \* 技名
             move_ja  |-> move_name_ja,                       \* 技名_日本語
             version  |-> DictGet(vmap, version_detail.version_group,
                                  version_detail.version_group), \* バージョン
             level    |-> version_detail.level_learned_at,    \* 習得レベル
             method   |-> version_detail.move_learn_method]   \* 習得方法
         >> \o MoveRows(pokemon_name, m, move_name_ja, vmap, k + 1)

\* fetch_pokemon_moves: `data = await fetch_json(session, url)`
FetchMovesPrimary ==
    /\ pc = "moves"
    /\ moves_k = 0
    /\ \E data \in Fetched(main_fetches[Len(main_fetches)]) :
          /\ main_got' = Append(main_got, data # None)
          /\ IF data = None \/ DictGet(data, "moves", << >>) = << >>
             THEN MovesLoop(pokemon_list_sorted, moves_idx + 1, moves_all,
                            files, main_fetches)
             ELSE /\ moves_data' = data
                  /\ moves_k' = 1
                  /\ main_fetches' = Append(main_fetches, data.moves[1].move.url)
                  /\ UNCHANGED << pc, moves_idx, moves_list, moves_all, files,
                                  written >>
    /\ UNCHANGED << item_map, item_idx, version_map, tasks, completed,
                    n_awaited, pokemon_list, pokemon_list_sorted, call, ret >>

\* fetch_pokemon_moves: one turn of `for m in data.get("moves", [])`.
\* move_data.get raises AttributeError when move_data is None; nothing
\* catches it, so main ends there.
FetchMoveDetail ==
    /\ pc = "moves"
    /\ moves_k >= 1
    /\ \E move_data \in Fetched(moves_data.moves[moves_k].move.url) :
          /\ main_got' = Append(main_got, move_data # None)
          /\ LET m == moves_data.moves[moves_k]
                 pokemon_name == pokemon_list_sorted[moves_idx].name_en
             IN IF move_data = None
                THEN /\ pc' = "crashed"
                     /\ UNCHANGED << moves_idx, moves_data, moves_k, moves_list,
                                     moves_all, main_fetches, files, written >>
                ELSE LET rows == moves_list \o
                                 MoveRows(pokemon_name, m,
                                          JaNameOf(move_data.names, m.move.name),
                                          version_map, 1)
                     IN IF moves_k < Len(moves_data.moves)
                        THEN /\ moves_list' = rows
                             /\ moves_k' = moves_k + 1
                             /\ main_fetches' =
                                    Append(main_fetches,
                                           moves_data.moves[moves_k + 1].move.url)
                             /\ UNCHANGED << pc, moves_idx, moves_data, moves_all,
                                             files, written >>
                        ELSE MovesLoop(pokemon_list_sorted, moves_idx + 1,
                                       moves_all \o rows, files, main_fetches)
    /\ UNCHANGED << item_map, item_idx, version_map, tasks, completed,
                    n_awaited, pokemon_list, pokemon_list_sorted, call, ret >>

-----------------------------------------------------------------------------
(* The pipeline: one run of `asyncio.run(main())` *)

InitFiles ==
    [f \in FileNames |->
        IF f = "version_group_names.json" THEN VersionGroupNames ELSE << >>]

Idle == [fn |-> "none"]

Init ==
    /\ pc = "fetch_items"
    /\ item_map = EmptyDict
    /\ item_idx = 0
    /\ version_map = EmptyDict
    /\ tasks = << >>
    /\ completed = << >>
    /\ n_awaited = 0
    /\ pokemon_list = << >>
    /\ pokemon_list_sorted = << >>
    /\ moves_idx = 0
    /\ moves_data = None
    /\ moves_k = 0
    /\ moves_list = << >>
    /\ moves_all = << >>
    /\ main_fetches = << POKEAPI_item_list >>
    /\ main_got = << >>
    /\ files = InitFiles
    /\ written = {}
    /\ call = Idle
    /\ ret = None

Next ==
    \/ FetchItemList
    \/ FetchItemDetail
    \/ \E i \in 1..MaxId : RunTask(i)
    \/ AwaitTask
    \/ FetchMovesPrimary
    \/ FetchMoveDetail

Spec == Init /\ [][Next]_vars

-----------------------------------------------------------------------------
(* fetch_json on its own: one call, for every URL and every sequence of    *)
(* attempt outcomes                                                        *)

Pending == [tag |-> "pending"]

\* no pipeline is running
PipelineIdle ==
    /\ pc = "idle"
    /\ item_map = EmptyDict
    /\ item_idx = 0
    /\ version_map = EmptyDict
    /\ tasks = << >>
    /\ completed = << >>
    /\ n_awaited = 0
    /\ pokemon_list = << >>
    /\ pokemon_list_sorted = << >>
    /\ moves_idx = 0
    /\ moves_data = None
    /\ moves_k = 0
    /\ moves_list = << >>
    /\ moves_all = << >>
    /\ main_fetches = << >>
    /\ main_got = << >>
    /\ written = {}

InitFetch ==
    /\ PipelineIdle
    /\ files = InitFiles
    /\ call \in { [fn |-> "fetch_json", url |-> u, resps |-> r] :
                     u \in UpstreamUrls, r \in Responses }
    /\ ret = Pending

CallFetchJson ==
    /\ call.fn = "fetch_json"
    /\ ret = Pending
    /\ ret' = fetch_json(call.url, call.resps)
    /\ UNCHANGED << pipeline_vars, files, call >>

SpecFetch == InitFetch /\ [][CallFetchJson]_vars

-----------------------------------------------------------------------------
(* The query layer: logic.py, and the cache dict simple_app.py builds *)

JA == "nihongo"                                            \* "日本語"
Langs == {JA, "English"}

load_item_name_map == files["item_names.json"]
load_type_name_map == TypeNames

\* safe_translate
safe_translate(name, mapping) == DictGet(mapping, name, name)

\* translate_types
translate_types(types, lang, type_map) ==
    IF lang = JA
    THEN [k \in 1..Len(types) |-> safe_translate(types[k], type_map)]
    ELSE types

\* the position of the record with this 英語名 in a sequence of records, or 0
RECURSIVE IndexOfSlug(_, _, _)
IndexOfSlug(entries, name_en, k) ==
    IF k > Len(entries) THEN 0
    ELSE IF entries[k].name_en = name_en THEN k
    ELSE IndexOfSlug(entries, name_en, k + 1)

\* {entry["英語名"]: entry for entry in raw_data}, as the sequence of its
\* values in insertion order: a repeated key keeps its place and takes the
\* later value
RECURSIVE load_pokemon_data(_)
load_pokemon_data(raw_data) ==
    IF raw_data = << >> THEN << >>
    ELSE LET before == load_pokemon_data(SubSeq(raw_data, 1, Len(raw_data) - 1))
             entry == raw_data[Len(raw_data)]
             at == IndexOfSlug(before, entry.name_en, 1)
         IN IF at = 0 THEN Append(before, entry)
            ELSE [before EXCEPT ![at] = entry]

\* cache_dict.get(name_en)
CacheGet(cache_dict, name_en) ==
    LET at == IndexOfSlug(cache_dict, name_en, 1) IN
    IF at = 0 THEN None ELSE cache_dict[at]

\* _make_entry
make_entry(entry, lang) ==
    [id              |-> entry.id,
     name_en         |-> entry.name_en,
     name            |-> IF lang = JA THEN entry.name_ja ELSE entry.name_en,
     types           |-> translate_types(entry.types, lang, load_type_name_map),
     img             |-> entry.img,
     evolution_chain |-> entry.evolution_chain,
     forms           |-> entry.forms]

\* get_pokemon_by_name_or_id without .lower() on the display name
Matches_case_sensitive(e, q, lang) ==
    \/ Str(e.id) = q
    \/ Lower(e.name_en) = q
    \/ (lang = JA /\ e.name_ja = q)

\* get_pokemon_by_name_or_id without the test of lang
Matches_any_locale(e, q, lang) ==
    \/ Str(e.id) = q
    \/ Lower(e.name_en) = q
    \/ Lower(e.name_ja) = q

\* whether the body of `for e in cache.values()` returns for this e
Matches(e, q, lang) ==
    \/ Str(e.id) = q
    \/ Lower(e.name_en) = q
    \/ (lang = JA /\ Lower(e.name_ja) = q)

\* the for loop of get_pokemon_by_name_or_id, at the k-th value
RECURSIVE FindFrom(_, _, _, _)
FindFrom(cache, q, lang, k) ==
    IF k > Len(cache) THEN None
    ELSE IF Matches(cache[k], q, lang) THEN make_entry(cache[k], lang)
    ELSE FindFrom(cache, q, lang, k + 1)

get_pokemon_by_name_or_id(query, lang, cache) ==
    FindFrom(cache, Lower(Strip(query)), lang, 1)

\* sep.join(texts): a single text is joined to itself, whatever sep is
Join(sep, texts) ==
    [sep |-> IF Len(texts) = 1 THEN "" ELSE sep, parts |-> texts]

Literal(fmt) == Join("", << Text(fmt, NoInt, "") >>)

\* format_evolution_conditions with rule (a) not reading the trigger
FormatDetail_level_first(d, lang, imap) ==
    IF TruthyInt(d.min_level)
    THEN IF lang = JA THEN Text("{lvl}reberu de shinka", d.min_level, "")
         ELSE Text("Evolves at level {lvl}", d.min_level, "")
    ELSE IF d.trigger = "use-item" /\ d.item # ""
    THEN IF lang = JA
         THEN Text("{item}wo tsukau", NoInt, safe_translate(d.item, imap))
         ELSE Text("Use {itm} to evolve", NoInt, d.item)
    ELSE Text("Special condition", NoInt, "")

\* format_evolution_conditions with `elif tm` tried before `elif mv`
FormatDetail_time_before_move(d, lang, imap) ==
    LET trig == d.trigger
        lvl  == d.min_level
        itm  == d.item
        hp   == d.min_happiness
        tm   == d.time_of_day
        mv   == d.known_move
    IN IF lang = JA
       THEN IF trig = "level-up" /\ TruthyInt(lvl)
            THEN Text("{lvl}reberu de shinka", lvl, "")       \* "{lvl}レベルで進化"
            ELSE IF trig = "use-item" /\ itm # ""
            THEN Text("{item}wo tsukau", NoInt,                \* "{item}を使う"
                      safe_translate(itm, imap))
            ELSE IF TruthyInt(hp)               \* "なつき度が高い状態で進化"
            THEN Text("natsukido ga takai jotai de shinka", NoInt, "")
            ELSE IF tm # ""
            THEN Text("{tm}ni shinka", NoInt, tm)             \* "{tm}に進化"
            ELSE IF mv # ""                        \* "{mv}を覚えていると進化"
            THEN Text("{mv}wo oboeteiru to shinka", NoInt, mv)
            ELSE Text("tokushu na joken de shinka", NoInt, "") \* "特殊な条件で進化"
       ELSE IF trig = "level-up" /\ TruthyInt(lvl)
            THEN Text("Evolves at level {lvl}", lvl, "")
            ELSE IF trig = "use-item" /\ itm # ""
            THEN Text("Use {itm} to evolve", NoInt, itm)
            ELSE IF TruthyInt(hp)
            THEN Text("High friendship required", NoInt, "")
            ELSE IF tm # ""
            THEN Text("Evolves during {tm}", NoInt, tm)
            ELSE IF mv # ""
            THEN Text("Knows move {mv}", NoInt, mv)
            ELSE Text("Special condition", NoInt, "")

\* format_evolution_conditions with `elif hp is not None` for `elif hp`
FormatDetail_happiness_present(d, lang, imap) ==
    LET trig == d.trigger
        lvl  == d.min_level
        itm  == d.item
        hp   == d.min_happiness
        tm   == d.time_of_day
        mv   == d.known_move
    IN IF lang = JA
       THEN IF trig = "level-up" /\ TruthyInt(lvl)
            THEN Text("{lvl}reberu de shinka", lvl, "")       \* "{lvl}レベルで進化"
            ELSE IF trig = "use-item" /\ itm # ""
            THEN Text("{item}wo tsukau", NoInt,                \* "{item}を使う"
                      safe_translate(itm, imap))
            ELSE IF hp # NoInt               \* "なつき度が高い状態で進化"
            THEN Text("natsukido ga takai jotai de shinka", NoInt, "")
            ELSE IF mv # ""                        \* "{mv}を覚えていると進化"
            THEN Text("{mv}wo oboeteiru to shinka", NoInt, mv)
            ELSE IF tm # ""
            THEN Text("{tm}ni shinka", NoInt, tm)             \* "{tm}に進化"
            ELSE Text("tokushu na joken de shinka", NoInt, "") \* "特殊な条件で進化"
       ELSE IF trig = "level-up" /\ TruthyInt(lvl)
            THEN Text("Evolves at level {lvl}", lvl, "")
            ELSE IF trig = "use-item" /\ itm # ""
            THEN Text("Use {itm} to evolve", NoInt, itm)
            ELSE IF hp # NoInt
            THEN Text("High friendship required", NoInt, "")
            ELSE IF mv # ""
            THEN Text("Knows move {mv}", NoInt, mv)
            ELSE IF tm # ""
            THEN Text("Evolves during {tm}", NoInt, tm)
            ELSE Text("Special condition", NoInt, "")

\* format_evolution_conditions: the body of `for d in details`, an if/elif
\* chain per locale
FormatDetail(d, lang, imap) ==
    LET trig == d.trigger
        lvl  == d.min_level
        itm  == d.item
        hp   == d.min_happiness
        tm   == d.time_of_day
        mv   == d.known_move
    IN IF lang = JA
       THEN IF trig = "level-up" /\ TruthyInt(lvl)
            THEN Text("{lvl}reberu de shinka", lvl, "")       \* "{lvl}レベルで進化"
            ELSE IF trig = "use-item" /\ itm # ""
            THEN Text("{item}wo tsukau", NoInt,                \* "{item}を使う"
                      safe_translate(itm, imap))
            ELSE IF TruthyInt(hp)               \* "なつき度が高い状態で進化"
            THEN Text("natsukido ga takai jotai de shinka", NoInt, "")
            ELSE IF mv # ""                        \* "{mv}を覚えていると進化"
            THEN Text("{mv}wo oboeteiru to shinka", NoInt, mv)
            ELSE IF tm # ""
            THEN Text("{tm}ni shinka", NoInt, tm)             \* "{tm}に進化"
            ELSE Text("tokushu na joken de shinka", NoInt, "") \* "特殊な条件で進化"
       ELSE IF trig = "level-up" /\ TruthyInt(lvl)
            THEN Text("Evolves at level {lvl}", lvl, "")
            ELSE IF trig = "use-item" /\ itm # ""
            THEN Text("Use {itm} to evolve", NoInt, itm)
            ELSE IF TruthyInt(hp)
            THEN Text("High friendship required", NoInt, "")
            ELSE IF mv # ""
            THEN Text("Knows move {mv}", NoInt, mv)
            ELSE IF tm # ""
            THEN Text("Evolves during {tm}", NoInt, tm)
            ELSE Text("Special condition", NoInt, "")

\* "条件不明" / "Unknown condition"
UnknownCondition(lang) ==
    Literal(IF lang = JA THEN "joken fumei" ELSE "Unknown condition")

format_evolution_conditions(details, lang) ==
    IF details = << >> THEN UnknownCondition(lang)
    ELSE Join(IF lang = JA THEN "," ELSE "; ",                 \* "、"
              [k \in 1..Len(details) |->
                  FormatDetail(details[k], lang, load_item_name_map)])

\* traverse leaving out a node that is not cached but still walking its
\* children
RECURSIVE traverse_keeping_children(_, _, _, _)
RECURSIVE TraverseChildren_keeping(_, _, _, _)
traverse_keeping_children(node, cond, lang, cache_dict) ==
    LET name_en == node.species
        entry == CacheGet(cache_dict, name_en)
    IN (IF entry = None THEN << >>
        ELSE << [name      |-> IF lang = JA THEN entry.name_ja ELSE entry.name_en,
                 name_en   |-> name_en,
                 id        |-> entry.id,
                 img       |-> entry.img,
                 types     |-> translate_types(entry.types, lang,
                                               load_type_name_map),
                 condition |-> cond] >>)
       \o TraverseChildren_keeping(DictGet(node, "evolves_to", << >>), 1, lang,
                                   cache_dict)

TraverseChildren_keeping(evolves_to, k, lang, cache_dict) ==
    IF k > Len(evolves_to) THEN << >>
    ELSE traverse_keeping_children(
             evolves_to[k],
             format_evolution_conditions(
                 DictGet(evolves_to[k], "evolution_details", << >>), lang),
             lang, cache_dict)
         \o TraverseChildren_keeping(evolves_to, k + 1, lang, cache_dict)

\* traverse(node, cond) of get_evolution_tree: what it appends to tree
RECURSIVE traverse(_, _, _, _)
RECURSIVE TraverseChildren(_, _, _, _)
traverse(node, cond, lang, cache_dict) ==
    LET name_en == node.species
        entry == CacheGet(cache_dict, name_en)
    IN IF entry = None THEN << >>
       ELSE << [name      |-> IF lang = JA THEN entry.name_ja ELSE entry.name_en,
                name_en   |-> name_en,
                id        |-> entry.id,
                img       |-> entry.img,
                types     |-> translate_types(entry.types, lang,
                                              load_type_name_map),
                condition |-> cond] >>
            \o TraverseChildren(DictGet(node, "evolves_to", << >>), 1, lang,
                                cache_dict)

\* `for evo in node.get("evolves_to", [])`, from the k-th child on
TraverseChildren(evolves_to, k, lang, cache_dict) ==
    IF k > Len(evolves_to) THEN << >>
    ELSE traverse(evolves_to[k],
                  format_evolution_conditions(
                      DictGet(evolves_to[k], "evolution_details", << >>), lang),
                  lang, cache_dict)
         \o TraverseChildren(evolves_to, k + 1, lang, cache_dict)

Returns(value) == [tag |-> "return", value |-> value]
Raises(exc) == [tag |-> "raise", exc |-> exc]

\* get_evolution_tree.  None has no .get, and a node without "species" has
\* no node["species"].
get_evolution_tree(base_en, lang, cache_dict) ==
    LET root == CacheGet(cache_dict, base_en) IN
    IF root = None THEN Returns(<< >>)
    ELSE IF root.evolution_chain = None THEN Raises("AttributeError")
    ELSE LET chain == DictGet(root.evolution_chain, "chain", EmptyDict) IN
         IF "species" \notin DOMAIN chain THEN Raises("KeyError")
         ELSE Returns(traverse(chain, UnknownCondition(lang), lang, cache_dict))

-----------------------------------------------------------------------------
(* The query layer over every cache a pipeline run can write *)

\* the awaits of one fetch_pokemon call are at most this many
MaxTaskFetches == 5

\* fetch_pokemon run to its return, the k-th fetch giving a document iff oc[k]
RECURSIVE RunToReturn(_, _, _)
RunToReturn(t, oc, imap) ==
    IF t.pc = "done" THEN t
    ELSE RunToReturn(
             TaskStep(t,
                      IF oc[Len(t.fetches)] THEN UpstreamDoc(Awaited(t)) ELSE None,
                      imap),
             oc, imap)

\* what fetch_pokemon(session, pokemon_id, item_map) can return
PokemonResults(pokemon_id, imap) ==
    { RunToReturn(NewTask(pokemon_id), oc, imap).result :
          oc \in [1..MaxTaskFetches -> BOOLEAN] }

\* The contents pokemon_cache.json can have after a run with this item_map:
\* for each ID from i on, in ascending order as main sorts them, the record
\* fetch_pokemon returned, if it returned one.
RECURSIVE PokemonCachesFrom(_, _)
PokemonCachesFrom(i, imap) ==
    IF i > MaxId THEN { << >> }
    ELSE { (IF res # None THEN << res >> ELSE << >>) \o rest :
               res \in PokemonResults(i, imap),
               rest \in PokemonCachesFrom(i + 1, imap) }

PokemonCaches(imap) == PokemonCachesFrom(1, imap)

\* the item maps fetch_all_items can return
ItemMaps == { EmptyDict, [n \in {"stone"} |-> "ishi"] }

QueryChars == {"a", "A", " ", "2", "ka", "Z"}
Queries == UNION { [1..n -> QueryChars] : n \in 0..MaxQueryLen }

InitQuery ==
    /\ PipelineIdle
    /\ \E imap \in ItemMaps : \E cache \in PokemonCaches(imap) :
          files = [InitFiles EXCEPT !["pokemon_cache.json"] = cache,
                                    !["item_names.json"] = imap]
    /\ call = Idle
    /\ ret = Pending

\* simple_app.py: pokemon_data
pokemon_data == load_pokemon_data(files["pokemon_cache.json"])

CallFind ==
    /\ call = Idle
    /\ \E query \in Queries, lang \in Langs :
          /\ call' = [fn |-> "get_pokemon_by_name_or_id",
                      query |-> query, lang |-> lang]
          /\ ret' = get_pokemon_by_name_or_id(query, lang, pokemon_data)
    /\ UNCHANGED << pipeline_vars, files >>

CallTree ==
    /\ call = Idle
    /\ \E i \in UpstreamIds, lang \in Langs :
          /\ call' = [fn |-> "get_evolution_tree",
                      base_en |-> Slug(i), lang |-> lang]
          /\ ret' = get_evolution_tree(Slug(i), lang, pokemon_data)
    /\ UNCHANGED << pipeline_vars, files >>

NextQuery == CallFind \/ CallTree

SpecQuery == InitQuery /\ [][NextQuery]_vars

-----------------------------------------------------------------------------
(* format_evolution_conditions on its own: one call, for every list of     *)
(* evolution-detail records                                                *)

\* the longest list of evolution-detail records formatted
MaxDetails == 1

DetailRecords ==
    { Detail(trigger, min_level, item, min_happiness, time_of_day, known_move) :
          trigger \in {"level-up", "use-item", "trade"},
          min_level \in {NoInt, 0, 16},
          item \in {"", "stone"},
          min_happiness \in {NoInt, 0, 160},
          time_of_day \in {"", "night"},
          known_move \in {"", "tackle"} }

DetailLists == UNION { [1..n -> DetailRecords] : n \in 0..MaxDetails }

InitFormat ==
    /\ PipelineIdle
    /\ \E imap \in ItemMaps : files = [InitFiles EXCEPT !["item_names.json"] = imap]
    /\ call = Idle
    /\ ret = Pending

CallFormat ==
    /\ call = Idle
    /\ \E details \in DetailLists, lang \in Langs :
          /\ call' = [fn |-> "format_evolution_conditions",
                      details |-> details, lang |-> lang]
          /\ ret' = format_evolution_conditions(details, lang)
    /\ UNCHANGED << pipeline_vars, files >>

SpecFormat == InitFormat /\ [][CallFormat]_vars

-----------------------------------------------------------------------------
(* C1: fetch_json *)

\* the first attempt that raised no exception, or 0
FirstAnswer(resps) ==
    IF \A k \in DOMAIN resps : resps[k] = "exc" THEN 0
    ELSE CHOOSE k \in DOMAIN resps :
             /\ resps[k] # "exc"
             /\ \A j \in 1..(k - 1) : resps[j] = "exc"

FetchJsonReturned == call.fn = "fetch_json" /\ ret # Pending

\* C1: fetch_json makes at most 3 attempts and always returns.  It stops at
\* the first attempt that raises no exception: a 200 response returns the
\* document, any other status returns None, with no further attempt.  After
\* an exception it tries again only while fewer than 3 attempts were made,
\* and 3 exceptions in a row return None.
FetchJsonContract ==
    FetchJsonReturned =>
        LET k == FirstAnswer(call.resps) IN
        /\ ret.attempts \in 1..3
        /\ IF k = 0
           THEN ret.attempts = 3 /\ ret.result = None
           ELSE /\ ret.attempts = k
                /\ call.resps[k] = "ok" => ret.result = UpstreamDoc(call.url)
                /\ call.resps[k] = "status" => ret.result = None

\* two exceptions, then a 200 response on the third attempt
FetchJsonRetriedTwice ==
    /\ FetchJsonReturned
    /\ call.resps = << "exc", "exc", "ok" >>
    /\ ret.attempts = 3
    /\ ret.result = UpstreamDoc(call.url)

-----------------------------------------------------------------------------
(* C2 - C6: the pipeline *)

CacheWritten == "pokemon_cache.json" \in written
PokemonCache == files["pokemon_cache.json"]

\* C2: whatever order the entity tasks complete in, the collection main
\* writes has strictly ascending IDs: it is sorted and no ID occurs twice.
CacheSortedAndUnique ==
    CacheWritten =>
        \A j \in 1..(Len(PokemonCache) - 1) :
            PokemonCache[j].id < PokemonCache[j + 1].id

\* a cache written after a task with a larger ID completed first
CacheWrittenAfterUnorderedCompletion ==
    /\ CacheWritten
    /\ Len(PokemonCache) >= 2
    /\ \E j \in 1..(Len(pokemon_list) - 1) :
          pokemon_list[j].id > pokemon_list[j + 1].id

\* the rows emitted so far by the call of fetch_pokemon_moves in progress
\* and by the calls before it
RowsSoFar == moves_all \o moves_list

\* C3: when fetch_pokemon_moves gets None for a move's detail record, the
\* run goes on and one row per declared version-group detail is emitted for
\* the move, its localized name being its slug.
MoveKeptWhenDetailAbsent ==
    [][ (pc = "moves" /\ moves_k >= 1 /\ main_got' = Append(main_got, FALSE))
        => LET m == moves_data.moves[moves_k]
               n == Len(m.version_group_details)
           IN /\ pc' # "crashed"
              /\ Len(RowsSoFar') = Len(RowsSoFar) + n
              /\ \A j \in 1..n :
                    /\ RowsSoFar'[Len(RowsSoFar) + j].move = m.move.name
                    /\ RowsSoFar'[Len(RowsSoFar) + j].move_ja = m.move.name
      ]_vars

\* no fetch so far, by main or by an entity task, has given a document
NothingFetched ==
    /\ \A k \in DOMAIN main_got : ~main_got[k]
    /\ \A i \in DOMAIN tasks : \A k \in DOMAIN tasks[i].got : ~tasks[i].got[k]

\* C4: while every fetch returns None the run does not crash and is never
\* stuck before its end, and at its end all the caches are written, with an
\* empty entity collection, an empty move table and empty item and move
\* label maps.
UnavailableUpstreamGivesEmptyCaches ==
    NothingFetched =>
        /\ pc # "crashed"
        /\ pc # "done" => ENABLED Next
        /\ pc = "done" =>
              /\ written = FileNames
              /\ files["pokemon_cache.json"] = << >>
              /\ files["moves_cache.csv"] = << >>
              /\ files["item_names.json"] = EmptyDict
              /\ files["move_names.json"] = EmptyDict

\* a run that ended with every one of its fetches returning None
RunEndedWithNothingFetched ==
    /\ pc = "done"
    /\ NothingFetched
    /\ main_got = << FALSE >>
    /\ \A i \in 1..MaxId : tasks[i].got = << FALSE >>

\* the IDs whose primary fetch returned a document
PrimaryFetched == { i \in DOMAIN tasks : tasks[i].got # << >> /\ tasks[i].got[1] }

\* C5: the persisted collection holds one record for each ID whose primary
\* fetch returned a document and none for any other ID, whatever the
\* species, evolution-chain and form fetches returned.
CacheHoldsExactlyPrimaryFetched ==
    CacheWritten =>
        /\ { PokemonCache[j].id : j \in DOMAIN PokemonCache } = PrimaryFetched
        /\ Len(PokemonCache) = Cardinality(PrimaryFetched)

\* a cache written with one entity skipped and another kept although its
\* species fetch, and one kept although its chain or form fetch, was absent
CacheWrittenWithSkippedEntity ==
    /\ CacheWritten
    /\ \E i \in 1..MaxId : tasks[i].got = << FALSE >>
    /\ \E i \in 1..MaxId : tasks[i].got = << TRUE, FALSE >>
    /\ \E i \in 1..MaxId : Len(tasks[i].got) >= 3 /\ ~tasks[i].got[3]

\* the entity tasks that returned after an absent species fetch
SpeciesAbsent ==
    { i \in DOMAIN tasks :
         tasks[i].pc = "done" /\ Len(tasks[i].got) >= 2
         /\ tasks[i].got[1] /\ ~tasks[i].got[2] }

\* C6: when the primary fetch gives a document and the species fetch None,
\* fetch_pokemon returns a record whose display name is the slug, whose
\* evolution chain is null and whose forms list is empty, having requested
\* the primary and the species record and nothing else.
SpeciesAbsentGivesBareRecord ==
    \A i \in SpeciesAbsent :
        LET r == tasks[i].result IN
        /\ r # None
        /\ r.id = i
        /\ r.name_en = Slug(i)
        /\ r.name_ja = Slug(i)
        /\ r.evolution_chain = None
        /\ r.forms = << >>
        /\ tasks[i].fetches = << POKEAPI_pokemon(Str(i)), SpeciesUrl(i) >>

\* the entity that has an evolution chain and a variety returned so
SpeciesAbsentForEntityWithChain ==
    /\ 2 \in SpeciesAbsent
    /\ tasks[2].result # None

-----------------------------------------------------------------------------
(* C7 - C10: the query layer *)

TreeCalled == call.fn = "get_evolution_tree"
CachedSlugs == { PokemonCache[j].name_en : j \in DOMAIN PokemonCache }

\* C7: get_evolution_tree never raises, and every node of the tree it
\* returns has its slug in the cache, for every root slug and every cache a
\* pipeline run can write.
TreeNeverRaises ==
    TreeCalled =>
        /\ ret.tag = "return"
        /\ \A k \in DOMAIN ret.value : ret.value[k].name_en \in CachedSlugs

FormatCalledWithOne ==
    call.fn = "format_evolution_conditions" /\ Len(call.details) = 1

LevelAndItem ==
    /\ FormatCalledWithOne
    /\ TruthyInt(call.details[1].min_level)
    /\ call.details[1].item # ""

LevelUpText ==
    IF call.lang = JA
    THEN Text("{lvl}reberu de shinka", call.details[1].min_level, "")
    ELSE Text("Evolves at level {lvl}", call.details[1].min_level, "")

UseItemText ==
    IF call.lang = JA
    THEN Text("{item}wo tsukau", NoInt,
              IF call.details[1].item \in DOMAIN files["item_names.json"]
              THEN files["item_names.json"][call.details[1].item]
              ELSE call.details[1].item)
    ELSE Text("Use {itm} to evolve", NoInt, call.details[1].item)

\* C8 as claimed: a detail record with a minimum level and a named item is
\* formatted as the level-up text in either locale, whatever its trigger.
LevelAndItemIsLevelUp ==
    LevelAndItem => ret.parts = << LevelUpText >>

\* C8 as amended: a detail record with a minimum level and a named item is
\* formatted as the level-up text in either locale when its trigger kind is
\* level-up, and as the item-use text when its trigger kind is item-use.
LevelAndItemFollowsTrigger ==
    LevelAndItem =>
        /\ call.details[1].trigger = "level-up" => ret.parts = << LevelUpText >>
        /\ call.details[1].trigger = "use-item" => ret.parts = << UseItemText >>

\* an item-use record that also has a minimum level, formatted as item use
ItemUseWithLevelFormatted ==
    /\ LevelAndItem
    /\ call.details[1].trigger = "use-item"
    /\ call.details[1].min_level = 16
    /\ ret.parts = << UseItemText >>

FindCalled == call.fn = "get_pokemon_by_name_or_id"

\* the positions of the cached records the trimmed, lower-cased query names
Hits(query, lang) ==
    LET q == Lower(Strip(query)) IN
    { k \in DOMAIN PokemonCache :
         \/ Str(PokemonCache[k].id) = q
         \/ Lower(PokemonCache[k].name_en) = q
         \/ (lang = JA /\ Lower(PokemonCache[k].name_ja) = q) }

First(S) == CHOOSE k \in S : \A j \in S : k <= j

\* ret is the display entry of record e
IsEntryOf(e) ==
    /\ ret # None
    /\ ret.id = e.id
    /\ ret.name_en = e.name_en
    /\ ret.name = IF call.lang = JA THEN e.name_ja ELSE e.name_en
    /\ ret.evolution_chain = e.evolution_chain
    /\ ret.forms = e.forms

\* C9: get_pokemon_by_name_or_id returns the display entry of the first
\* cached record whose ID string, or lower-cased slug, or (Japanese locale
\* only) lower-cased display name equals the trimmed, lower-cased query, and
\* None when there is none; a query that is the decimal ID of a cached
\* entity returns that entity under either locale.
FindReturnsFirstMatch ==
    FindCalled =>
        /\ IF Hits(call.query, call.lang) = {} THEN ret = None
           ELSE IsEntryOf(PokemonCache[First(Hits(call.query, call.lang))])
        /\ \A k \in DOMAIN PokemonCache :
              call.query = Str(PokemonCache[k].id) =>
                  ret # None /\ ret.id = PokemonCache[k].id

\* the ID 2, typed after a blank under the non-Japanese locale, finds the
\* second record of the cache
FoundSecondRecordById ==
    /\ FindCalled
    /\ call.lang # JA
    /\ call.query = << " ", "2" >>
    /\ Len(PokemonCache) >= 2
    /\ PokemonCache[1].id = 1
    /\ ret # None
    /\ ret.id = 2

\* the cached records the query names by display name only
ByDisplayNameOnly(query) ==
    LET q == Lower(Strip(query)) IN
    IF \E k \in DOMAIN PokemonCache :
           Str(PokemonCache[k].id) = q \/ Lower(PokemonCache[k].name_en) = q
    THEN {}
    ELSE { k \in DOMAIN PokemonCache : Lower(PokemonCache[k].name_ja) = q }

\* C10: a query that names a record by its display name only, equalling no
\* record's ID string or slug, returns that record under the Japanese locale
\* and None under the other locale.
FindIsLocaleSensitive ==
    (FindCalled /\ ByDisplayNameOnly(call.query) # {}) =>
        IF call.lang = JA
        THEN IsEntryOf(PokemonCache[First(ByDisplayNameOnly(call.query))])
        ELSE ret = None

\* a display name with a capital letter, typed under the non-Japanese locale
DisplayNameNotFoundInEnglish ==
    /\ FindCalled
    /\ call.lang # JA
    /\ call.query = << "ka", "Z" >>
    /\ ByDisplayNameOnly(call.query) # {}
    /\ ret = None

-----------------------------------------------------------------------------
(* C11 - C12: the evolution condition of a form *)

\* the nodes of a chain tree below `node`
RECURSIVE NodesBelow(_)
NodesBelow(node) ==
    UNION { {node.evolves_to[k]} \cup NodesBelow(node.evolves_to[k]) :
               k \in DOMAIN node.evolves_to }

\* the form records assembled with an evolution chain at hand, as pairs of
\* the returned entity record and the form's place in its forms list
FormsWithChain ==
    UNION { { <<i, k>> : k \in DOMAIN tasks[i].result.forms } :
               i \in { j \in DOMAIN tasks :
                          /\ tasks[j].pc = "done"
                          /\ tasks[j].result # None
                          /\ tasks[j].result.evolution_chain # None } }

\* the non-root nodes of the chain of entity record r that carry the slug of
\* its k-th form
MatchingNodes(r, k) ==
    { n \in NodesBelow(r.evolution_chain.chain) :
         n.species = r.forms[k].name_en }

\* C11: the search of the chain tree finds a node carrying the variety's
\* slug whenever a non-root node carries it, wherever it is in the tree, and
\* the condition returned is derived from that node's evolution details; the
\* "condition unknown" sentinel is returned only when no node matches.
SearchFindsMatchingNode ==
    \A p \in FormsWithChain :
        LET r == tasks[p[1]].result
            cond == r.forms[p[2]].evolution_condition
        IN /\ MatchingNodes(r, p[2]) # {} =>
                \E n \in MatchingNodes(r, p[2]) :
                    /\ n.evolution_details # << >>
                    /\ cond = ConditionOfDetail(n.evolution_details[1], item_map)
           /\ cond = ConditionUnknown => MatchingNodes(r, p[2]) = {}

\* the returned entity records that have forms and no evolution chain
FormsWithoutChain ==
    { i \in DOMAIN tasks :
         /\ tasks[i].pc = "done"
         /\ tasks[i].result # None
         /\ tasks[i].result.evolution_chain = None
         /\ tasks[i].result.forms # << >> }

\* C12 as stated: a form record assembled when its entity has no evolution
\* chain carries the "condition unknown" sentinel as its evolution condition.
FormWithoutChainHasSentinel ==
    \A i \in FormsWithoutChain :
        \A k \in DOMAIN tasks[i].result.forms :
            tasks[i].result.forms[k].evolution_condition = ConditionUnknown

\* C12, amended: a form record assembled when its entity has no evolution
\* chain (chain URL missing or chain fetch absent) carries the empty string
\* as its evolution condition; the chain search, which alone produces the
\* sentinel, is not run.
FormWithoutChainHasEmptyCondition ==
    \A i \in FormsWithoutChain :
        \A k \in DOMAIN tasks[i].result.forms :
            tasks[i].result.forms[k].evolution_condition = Text("", NoInt, "")

\* one entity returned a form after its chain fetch was absent, another a
\* form without ever having a chain URL
FormsAssembledWithoutChain ==
    /\ {2, 3} \subseteq FormsWithoutChain
    /\ ChainUrl(ChainOf(2)) \in { tasks[2].fetches[k] : k \in DOMAIN tasks[2].fetches }
    /\ ~tasks[2].got[3]
    /\ \A k \in DOMAIN tasks[3].fetches : tasks[3].fetches[k].ep # "evolution-chain"

-----------------------------------------------------------------------------
(* C13 - C16: the order of the run *)

Running == { i \in DOMAIN tasks : tasks[i].pc # "done" }

\* the variables of main: everything but the locals of the entity tasks and
\* the queue of completed tasks that as_completed hands to main
main_vars == << pc, item_map, item_idx, version_map, n_awaited, pokemon_list,
                pokemon_list_sorted, moves_idx, moves_data, moves_k,
                moves_list, moves_all, main_fetches, main_got, files, written >>

\* C13 as stated: no record has been added to the result collection while
\* another entity task is still running.
NoRecordWhileTaskRunning == pokemon_list # << >> => Running = {}

\* C13, amended: records are appended to main's result list one at a time by
\* main's own await step, as each entity task completes, possibly while other
\* entity tasks are still running; a step of an entity task changes only
\* that task's locals and queues its completion, writing no variable of main
\* or of another task; the sorted collection is built and persisted only
\* after every entity task has completed.
AggregationByMainOnly ==
    [][ /\ pokemon_list' # pokemon_list =>
              /\ tasks' = tasks /\ completed' = completed
              /\ n_awaited' = n_awaited + 1
              /\ pokemon_list' =
                     Append(pokemon_list, tasks[completed[n_awaited']].result)
        /\ (pc = "gather" /\ tasks' # tasks) =>
              /\ \E i \in Running :
                    /\ \A j \in DOMAIN tasks \ {i} : tasks'[j] = tasks[j]
                    /\ completed' \in {completed, Append(completed, i)}
              /\ UNCHANGED main_vars
        /\ (pokemon_list_sorted' # pokemon_list_sorted
              \/ files'["pokemon_cache.json"] # files["pokemon_cache.json"]) =>
              /\ Running = {}
              /\ pokemon_list_sorted' = SortedById(pokemon_list')
      ]_vars

\* a record is in main's list while another entity task is still running
RecordAppendedWhileTaskRunning ==
    /\ pc = "gather"
    /\ pokemon_list # << >>
    /\ Running # {}

\* the fetches main has issued for the move table, in order of issue
IsMoveFetch(url) == url.ep \in {"pokemon", "move"}
IsMovesPrimary(url) == url.ep = "pokemon"
MoveFetches == SelectSeq(main_fetches, IsMoveFetch)

\* the ID of the cached entity whose slug a moves-primary URL carries
OwnerOf(url) ==
    CHOOSE id \in 1..MaxId :
        \E k \in DOMAIN pokemon_list_sorted :
            /\ pokemon_list_sorted[k].id = id
            /\ pokemon_list_sorted[k].name_en = url.key

\* the IDs of the entities whose moves main has begun to fetch, in order
OwnersFetched ==
    LET primaries == SelectSeq(main_fetches, IsMovesPrimary)
    IN [k \in DOMAIN primaries |-> OwnerOf(primaries[k])]

\* C14: no move fetch is issued before every entity task has completed and
\* the sorted entity collection has been written; at most one fetch of main
\* is in flight, and it belongs to the entity the moves loop is at; the
\* entities are taken in ascending ID order, each one's fetches having all
\* returned and its rows being in the table before the next one's begin.
MovesSequentialAfterEntities ==
    /\ MoveFetches # << >> =>
          /\ Running = {}
          /\ n_awaited = MaxId
          /\ CacheWritten
          /\ PokemonCache = pokemon_list_sorted
    /\ Len(main_fetches) - Len(main_got) \in {0, 1}
    /\ pc = "moves" =>
          /\ Len(main_fetches) = Len(main_got) + 1
          /\ moves_idx = Len(OwnersFetched)
          /\ OwnersFetched[moves_idx] = pokemon_list_sorted[moves_idx].id
          /\ IsMoveFetch(main_fetches[Len(main_fetches)])
          /\ \A r \in DOMAIN moves_list :
                moves_list[r].pokemon = pokemon_list_sorted[moves_idx].name_en
    /\ \A j, k \in DOMAIN OwnersFetched :
          j < k => OwnersFetched[j] < OwnersFetched[k]
    /\ \A r \in DOMAIN moves_all :
          \E k \in 1..(Len(OwnersFetched) - (IF pc = "moves" THEN 1 ELSE 0)) :
              moves_all[r].pokemon = pokemon_list_sorted[k].name_en

\* the second entity's move is being fetched, the first entity's rows being
\* in the table
SecondEntityMovesInFlight ==
    /\ pc = "moves"
    /\ moves_idx = 2
    /\ moves_k = 1
    /\ moves_all # << >>
    /\ main_fetches[Len(main_fetches)] = MoveUrl
    /\ OwnersFetched = << 1, 2 >>

\* the item map fetch_all_items has to return, given which of main's fetches
\* gave a document: the listing is main's first fetch, the items follow
ItemsFetched(got) ==
    IF got = << >> \/ ~got[1] THEN {}
    ELSE { k \in DOMAIN ItemListDoc.results : k + 1 <= Len(got) /\ got[k + 1] }

CompleteItemMap(got) ==
    [n \in { ItemListDoc.results[k].name : k \in ItemsFetched(got) } |->
        JaNameOf(ItemDoc.names, n)]

\* C15: when the first entity fetch is issued the item map holds every item
\* whose fetch gave a document and the version-group map is the one on disk
\* at the start of the run; from then on no step changes either map, and
\* the files written at the end of the run hold the two maps, the
\* version-group file being equal to what it was at the start.
LabelMapsReadOnly ==
    [][ /\ tasks # << >> =>
              /\ item_map' = item_map
              /\ version_map' = version_map
        /\ tasks' # << >> =>
              /\ item_map' = CompleteItemMap(main_got')
              /\ version_map' = InitFiles["version_group_names.json"]
        /\ files'["version_group_names.json"] =
               InitFiles["version_group_names.json"]
        /\ pc' = "done" =>
              /\ files'["item_names.json"] = item_map'
              /\ files'["version_group_names.json"] = version_map'
      ]_vars

\* the run ended having fetched an item label, assembled a form and built
\* move rows with a translated version group
RunEndedWithLabelsUsed ==
    /\ pc = "done"
    /\ written = FileNames
    /\ item_map # EmptyDict
    /\ version_map # EmptyDict
    /\ \E k \in DOMAIN PokemonCache : PokemonCache[k].forms # << >>
    /\ \E r \in DOMAIN moves_all :
          moves_all[r].version = VersionGroupNames["red-blue"]

MovesCache == files["moves_cache.csv"]

\* C16: every row of the persisted move table, and every row built so far,
\* has an owning entity slug that is the slug of a record in the persisted
\* entity collection, whatever the fetches returned.
MoveRowsReferenceCachedEntity ==
    /\ \A r \in DOMAIN MovesCache : MovesCache[r].pokemon \in CachedSlugs
    /\ \A r \in DOMAIN RowsSoFar : RowsSoFar[r].pokemon \in CachedSlugs

\* the move table was persisted with rows of two entities while an entity
\* is missing from the collection
MoveTableWrittenForTwoEntities ==
    /\ pc = "done"
    /\ "moves_cache.csv" \in written
    /\ { MovesCache[r].pokemon : r \in DOMAIN MovesCache } = { Slug(1), Slug(2) }
    /\ Len(PokemonCache) < MaxId

-----------------------------------------------------------------------------
(* get_evolution_tree over every shape of chain and every partial cache *)

\* a chain has at most this many nodes
MaxNodes == 4

\* The chain trees of n nodes whose slugs are, in pre-order, those of the
\* species first, first + 1, ...; every node but the root evolves by level.
RECURSIVE ChainTrees(_, _)
RECURSIVE ChainForests(_, _)
ChainTrees(n, first) ==
    { ChainNode(Slug(first),
                IF first = 1 THEN << >>
                ELSE << Detail("level-up", 16, "", NoInt, "", "") >>,
                forest) : forest \in ChainForests(n - 1, first + 1) }

ChainForests(m, first) ==
    IF m = 0 THEN { << >> }
    ELSE UNION { { << t >> \o f : t \in ChainTrees(k, first),
                                  f \in ChainForests(m - k, first + k) } :
                    k \in 1..m }

\* the record the pipeline writes for species i of a chain: with the raw
\* chain document, or with null when its chain fetch was absent
CachedRecord(i, evolution_chain) ==
    PokemonRecord([NewTask(i) EXCEPT !.data = PokemonDoc(i),
                                     !.name_ja = JaNames[i],
                                     !.evolution_chain = evolution_chain])

\* the collections written when the species `ids` of the chain are cached
RECURSIVE ChainCachesFrom(_, _, _)
ChainCachesFrom(i, n, doc) ==
    IF i > n THEN { << >> }
    ELSE LET rest == ChainCachesFrom(i + 1, n, doc) IN
         rest \cup { << CachedRecord(i, c) >> \o r :
                        c \in {doc, None}, r \in rest }

InitTree ==
    /\ PipelineIdle
    /\ \E n \in 1..MaxNodes : \E chain \in ChainTrees(n, 1) :
          \E cache \in ChainCachesFrom(1, n, [id |-> 1, chain |-> chain]) :
             files = [InitFiles EXCEPT
                         !["pokemon_cache.json"] = cache,
                         !["item_names.json"] = [i \in {"stone"} |-> "ishi"]]
    /\ call = Idle
    /\ ret = Pending

SpecTree == InitTree /\ [][CallTree]_vars

-----------------------------------------------------------------------------
(* C17: the evolution tree *)

\* the paths of a chain tree: the sequences of child positions from its root
RECURSIVE PathsOf(_)
PathsOf(node) ==
    { << >> } \cup
    UNION { { << k >> \o p : p \in PathsOf(node.evolves_to[k]) } :
               k \in DOMAIN node.evolves_to }

RECURSIVE NodeAt(_, _)
NodeAt(node, p) ==
    IF p = << >> THEN node ELSE NodeAt(node.evolves_to[Head(p)], Tail(p))

\* p comes before q in the depth-first pre-order
PreOrderBefore(p, q) ==
    \/ Len(p) < Len(q) /\ SubSeq(q, 1, Len(p)) = p
    \/ \E k \in 1..Len(p) :
          /\ k <= Len(q)
          /\ SubSeq(p, 1, k - 1) = SubSeq(q, 1, k - 1)
          /\ p[k] < q[k]

\* the chain the call walks: that of the cached record of its base slug
TreeReturned ==
    /\ TreeCalled
    /\ ret.tag = "return"
    /\ call.base_en \in CachedSlugs

ChainWalked ==
    LET root == CHOOSE e \in { PokemonCache[j] : j \in DOMAIN PokemonCache } :
                    e.name_en = call.base_en
    IN root.evolution_chain.chain

\* the nodes that are cached and all of whose ancestors are cached
VisiblePaths ==
    { p \in PathsOf(ChainWalked) :
         \A n \in 0..Len(p) :
             NodeAt(ChainWalked, SubSeq(p, 1, n)).species \in CachedSlugs }

PlaceOf(p) == 1 + Cardinality({ q \in VisiblePaths : PreOrderBefore(q, p) })

\* C17: the tree returned is exactly the depth-first pre-order sequence,
\* from the chain's root, of the chain nodes that are cached and all of
\* whose ancestors are cached: a node that is not cached is left out with
\* all its descendants, cached or not, and its siblings are still visited.
TreeIsPreOrderOfCachedBranches ==
    TreeReturned =>
        /\ Len(ret.value) = Cardinality(VisiblePaths)
        /\ \A p \in VisiblePaths :
              LET e == ret.value[PlaceOf(p)] IN
              /\ e.name_en = NodeAt(ChainWalked, p).species
              /\ \E j \in DOMAIN PokemonCache :
                    /\ PokemonCache[j].name_en = e.name_en
                    /\ PokemonCache[j].id = e.id

\* a node that is not cached has a cached child and a cached later sibling:
\* the tree holds the root and the sibling only
PrunedBranchWithCachedDescendant ==
    /\ TreeReturned
    /\ CachedSlugs = { Slug(1), Slug(3), Slug(4) }
    /\ PathsOf(ChainWalked) = { << >>, << 1 >>, << 1, 1 >>, << 2 >> }
    /\ [k \in DOMAIN ret.value |-> ret.value[k].name_en] = << Slug(1), Slug(4) >>

-----------------------------------------------------------------------------
(* C18 - C19: the priority of the formatter's rules *)

FormatCalled == call.fn = "format_evolution_conditions"

\* a number is set when it is neither null nor zero, a name when it is
\* neither null nor empty
IsSet(n) == n \notin {NoInt, 0}

\* the rules (a) .. (f), numbered 1 .. 6, that a detail record satisfies
RulesSatisfied(d) ==
    { r \in 1..6 :
         \/ r = 1 /\ d.trigger = "level-up" /\ IsSet(d.min_level)
         \/ r = 2 /\ d.trigger = "use-item" /\ d.item # ""
         \/ r = 3 /\ IsSet(d.min_happiness)
         \/ r = 4 /\ d.known_move # ""
         \/ r = 5 /\ d.time_of_day # ""
         \/ r = 6 }

\* the text of rule r for detail record d in the locale of the call
RuleText(r, d) ==
    LET ja == call.lang = JA
        label == IF d.item \in DOMAIN files["item_names.json"]
                 THEN files["item_names.json"][d.item] ELSE d.item
    IN CASE r = 1 -> IF ja THEN Text("{lvl}reberu de shinka", d.min_level, "")
                     ELSE Text("Evolves at level {lvl}", d.min_level, "")
         [] r = 2 -> IF ja THEN Text("{item}wo tsukau", NoInt, label)
                     ELSE Text("Use {itm} to evolve", NoInt, d.item)
         [] r = 3 -> IF ja
                     THEN Text("natsukido ga takai jotai de shinka", NoInt, "")
                     ELSE Text("High friendship required", NoInt, "")
         [] r = 4 -> IF ja THEN Text("{mv}wo oboeteiru to shinka", NoInt, d.known_move)
                     ELSE Text("Knows move {mv}", NoInt, d.known_move)
         [] r = 5 -> IF ja THEN Text("{tm}ni shinka", NoInt, d.time_of_day)
                     ELSE Text("Evolves during {tm}", NoInt, d.time_of_day)
         [] r = 6 -> IF ja THEN Text("tokushu na joken de shinka", NoInt, "")
                     ELSE Text("Special condition", NoInt, "")

\* C18: each detail record is formatted by the first rule it satisfies in
\* the order (a) level-up trigger with a minimum level, (b) item-use trigger
\* with a named item, (c) minimum happiness, (d) known move, (e) time of
\* day, (f) special condition, in both locales alike: a record satisfying
\* several rules yields the text of the highest-priority one, a record
\* satisfying none of (a) .. (e) the special-condition text.
FirstRuleWins ==
    (FormatCalled /\ call.details # << >>) =>
        /\ Len(ret.parts) = Len(call.details)
        /\ \A k \in DOMAIN call.details :
              ret.parts[k] =
                  RuleText(First(RulesSatisfied(call.details[k])),
                           call.details[k])

\* a record satisfying (c), (d) and (e) formatted as high friendship, in the
\* Japanese locale
FriendshipBeforeMoveAndTime ==
    /\ FormatCalled
    /\ call.lang = JA
    /\ call.details = << Detail("trade", NoInt, "", 160, "night", "tackle") >>
    /\ RulesSatisfied(call.details[1]) = {3, 4, 5, 6}
    /\ ret.parts = << RuleText(3, call.details[1]) >>

\* C19 as stated: a detail record matching neither rule (a) nor rule (b)
\* and carrying min_happiness = 0 is formatted as the high-friendship text.
ZeroHappinessIsFriendship ==
    \A k \in (IF FormatCalled THEN DOMAIN call.details ELSE {}) :
        LET d == call.details[k] IN
        ({1, 2} \cap RulesSatisfied(d) = {} /\ d.min_happiness = 0) =>
            ret.parts[k] = RuleText(3, d)

\* C19, amended: rule (c) fires for a record matching neither (a) nor (b)
\* whenever its minimum happiness is present and not zero, whatever the
\* value; with min_happiness = 0, as with none, the record is formatted by
\* the first of the rules (d), (e), (f) it satisfies.
HappinessRuleNeedsNonZero ==
    \A k \in (IF FormatCalled THEN DOMAIN call.details ELSE {}) :
        LET d == call.details[k] IN
        {1, 2} \cap RulesSatisfied(d) = {} =>
            /\ d.min_happiness \notin {NoInt, 0} => ret.parts[k] = RuleText(3, d)
            /\ d.min_happiness \in {NoInt, 0} =>
                  ret.parts[k] = RuleText(First(RulesSatisfied(d) \ {3}), d)

\* a record with min_happiness = 0 and a time of day formatted by rule (e)
ZeroHappinessFallsThrough ==
    /\ FormatCalled
    /\ call.lang # JA
    /\ call.details = << Detail("trade", NoInt, "", 0, "night", "") >>
    /\ ret.parts = << Text("Evolves during {tm}", NoInt, "night") >>

====
